---- MODULE Spec2Model ----
(***************************************************************************)
(* Connect Four with drop and pop moves (src/connect4.py).                 *)
(*                                                                         *)
(* A board is a Python list of ints, 7 cells per row, bottom row first.    *)
(* Lists are objects: the model keeps them in `heap`, a sequence of list   *)
(* contents indexed by object identity, and `board` is the reference the   *)
(* caller holds.  Python index i of a list is index i + 1 of its sequence. *)
(***************************************************************************)
EXTENDS Integers, Sequences, FiniteSets

VARIABLES
    heap,         \* the list objects allocated so far: reference -> contents
    board,        \* reference of the caller's current board
    pc,           \* "ready", "applied", "written" or "checked"
    who_played,   \* argument of the last check_victory call (0: none yet)
    winner,       \* value returned by the last check_victory call
    calls,        \* number of apply_move calls made
    lastIn,       \* reference passed to the last apply_move call
    lastOut,      \* reference returned by the last apply_move call
    snapshot,     \* contents of the input list when the last call was made
    turn,         \* arguments of the last apply_move call
    col,
    pop

vars == <<heap, board, pc, who_played, winner, calls, lastIn, lastOut,
          snapshot, turn, col, pop>>

EMPTY == 0
YELLOW == 1
RED == 2
COLS == 7

\* Bounds of the model.
MaxRows == 6        \* tallest board handed to check_victory
MaxShortRows == 3   \* tallest of the boards searched with every pair of runs
MaxMoveRows == 2    \* tallest board handed to apply_move
MaxCalls == 2       \* longest sequence of apply_move calls

Players == {YELLOW, RED}

num_rows(b) == Len(b) \div COLS

\* board[row * 7 + col]
Cell(b, row, c) == b[row * 7 + c + 1]

EmptyBoard(R) == [i \in 1..(COLS * R) |-> EMPTY]

(***************************************************************************)
(* check_victory                                                           *)
(***************************************************************************)

\* The scan of one line: the streak being extended and the win flags the
\* line has set.  yellow_wins and red_wins start False and are only ever
\* assigned True, so after all the scans each is True exactly when the scan
\* of some line set it; the streak variables are reset before every line.
StartLine ==
    [yellow_wins |-> FALSE, red_wins |-> FALSE,
     streak_piece |-> 0, index_of_streak_start |-> 0]

RecordWin(st) ==
    IF st.streak_piece = YELLOW THEN [st EXCEPT !.yellow_wins = TRUE]
    ELSE IF st.streak_piece = RED THEN [st EXCEPT !.red_wins = TRUE]
    ELSE st

\* What every inner loop does at position idx once `piece != streak_piece`.
StreakBroken(st, piece, idx) ==
    LET won == IF st.streak_piece # 0
                  /\ idx - st.index_of_streak_start + 1 = 4
               THEN RecordWin(st) ELSE st
    IN  [won EXCEPT !.index_of_streak_start = idx, !.streak_piece = piece]

\* The check after every inner loop, `ends` being the loop's own comparison.
TrailingCheck(st, ends) ==
    IF st.streak_piece # 0 /\ ends THEN RecordWin(st) ELSE st

RECURSIVE HorizontalCols(_, _, _, _)
HorizontalCols(b, row, c, st) ==
    IF c >= COLS THEN st
    ELSE IF Cell(b, row, c) # st.streak_piece
    THEN HorizontalCols(b, row, c + 1, StreakBroken(st, Cell(b, row, c), c))
    ELSE HorizontalCols(b, row, c + 1, st)

\* One pass of `for row in range(num_rows)`.
HorizontalRow(b, row) ==
    LET s == HorizontalCols(b, row, 0, StartLine)
    IN  TrailingCheck(s, 6 + 1 - s.index_of_streak_start = 4)

HorizontalScan(b) == {HorizontalRow(b, row) : row \in 0..(num_rows(b) - 1)}

RECURSIVE VerticalRows(_, _, _, _)
VerticalRows(b, c, row, st) ==
    IF row >= num_rows(b) THEN st
    ELSE IF Cell(b, row, c) # st.streak_piece
    THEN VerticalRows(b, c, row + 1, StreakBroken(st, Cell(b, row, c), row))
    ELSE VerticalRows(b, c, row + 1, st)

\* One pass of `for col in range(COLS)`.
VerticalCol(b, c) ==
    LET s == VerticalRows(b, c, 0, StartLine)
    IN  TrailingCheck(s, 5 + 1 - s.index_of_streak_start = 4)

VerticalScan(b) == {VerticalCol(b, c) : c \in 0..(COLS - 1)}

\* starting_coords of the up-left diagonals, as <<row, col>> pairs.
UpLeftStarts(b) ==
    {<<0, x>> : x \in 3..(COLS - 1)}
        \cup {<<x, COLS - 1>> : x \in 1..(num_rows(b) - 3 - 1)}

\* starting_coords of the up-right diagonals.
UpRightStarts(b) ==
    {<<0, x>> : x \in 0..(COLS - 4)}
        \cup {<<x, 0>> : x \in 1..(num_rows(b) - 3 - 1)}

RECURSIVE UpLeftWalk(_, _, _, _, _)
UpLeftWalk(b, row, c, diagonal_idx, st) ==
    IF row + diagonal_idx < num_rows(b) /\ c - diagonal_idx >= 0
    THEN LET piece == Cell(b, row + diagonal_idx, c - diagonal_idx)
         IN  IF piece # st.streak_piece
             THEN UpLeftWalk(b, row, c, diagonal_idx + 1,
                      StreakBroken(st, piece, diagonal_idx))
             ELSE UpLeftWalk(b, row, c, diagonal_idx + 1, st)
    ELSE st

\* One pass of `for row, col in starting_coords`, up-left.
UpLeftDiagonal(b, row, c) ==
    LET s == UpLeftWalk(b, row, c, 0, StartLine)
    IN  TrailingCheck(s, num_rows(b) - row - s.index_of_streak_start = 4)

UpLeftScan(b) == {UpLeftDiagonal(b, rc[1], rc[2]) : rc \in UpLeftStarts(b)}

RECURSIVE UpRightWalk(_, _, _, _, _)
UpRightWalk(b, row, c, diagonal_idx, st) ==
    IF row + diagonal_idx < num_rows(b) /\ c + diagonal_idx < COLS
    THEN LET piece == Cell(b, row + diagonal_idx, c + diagonal_idx)
         IN  IF piece # st.streak_piece
             THEN UpRightWalk(b, row, c, diagonal_idx + 1,
                      StreakBroken(st, piece, diagonal_idx))
             ELSE UpRightWalk(b, row, c, diagonal_idx + 1, st)
    ELSE st

\* One pass of `for row, col in starting_coords`, up-right.
UpRightDiagonal(b, row, c) ==
    LET s == UpRightWalk(b, row, c, 0, StartLine)
    IN  TrailingCheck(s, num_rows(b) - row - s.index_of_streak_start = 4)

UpRightScan(b) == {UpRightDiagonal(b, rc[1], rc[2]) : rc \in UpRightStarts(b)}

\* A guard that lets 3-row boards through.
TallEnough_three(b) == num_rows(b) >= 3

\* The cells the `while` loop of an up-left diagonal visits from (row, c).
UpLeftLine(b, row, c) ==
    {<<row + d, c - d>> :
        d \in {k \in 0..(COLS - 1) : row + k < num_rows(b) /\ c - k >= 0}}

\* The cells the `while` loop of an up-right diagonal visits from (row, c).
UpRightLine(b, row, c) ==
    {<<row + d, c + d>> :
        d \in {k \in 0..(COLS - 1) : row + k < num_rows(b) /\ c + k < COLS}}

\* `if num_rows >= 4:` guarding the vertical and the two diagonal scans.
TallEnough(b) == num_rows(b) >= 4

\* The line scans check_victory runs on b.
ScansRun(b) ==
    HorizontalScan(b)
        \cup (IF TallEnough(b)
              THEN VerticalScan(b) \cup UpLeftScan(b) \cup UpRightScan(b)
              ELSE {})

\* The win flags once every scan has run.
ScanBoard(b) ==
    LET scans == ScansRun(b)
    IN  [yellow_wins |-> \E s \in scans : s.yellow_wins,
         red_wins |-> \E s \in scans : s.red_wins]

\* The final if/elif chain.
Resolve(st, who) ==
    IF st.yellow_wins /\ st.red_wins THEN 3 - who
    ELSE IF st.yellow_wins THEN YELLOW
    ELSE IF st.red_wins THEN RED
    ELSE 0

check_victory(b, who) == Resolve(ScanBoard(b), who)

(***************************************************************************)
(* check_move and apply_move                                               *)
(***************************************************************************)

check_move(b, t, c, p) == TRUE

\* apply_move returning the list it was given.
apply_move_alias(h, b, t, c, p) == [heap |-> h, ref |-> b]

\* apply_move emptying the bottom cell of the column on a pop and leaving
\* the pieces above it where they are.
apply_move_nocollapse(h, b, t, c, p) ==
    [heap |-> Append(h, IF p THEN [h[b] EXCEPT ![c + 1] = EMPTY] ELSE h[b]),
     ref |-> Len(h) + 1]

\* `return board.copy()`: a new list object holding the cells of the list
\* that `b` refers to; the arguments t, c and p are not read.
apply_move(h, b, t, c, p) ==
    [heap |-> Append(h, h[b]), ref |-> Len(h) + 1]

(***************************************************************************)
(* The boards the functions are called with                                *)
(***************************************************************************)

\* A run of `len` cells of one colour from (row, col) in direction (dr, dc).
Directions == {<<0, 1>>, <<1, 0>>, <<1, 1>>, <<1, -1>>}

Runs(R, lens) ==
    {s \in [row : 0..(R - 1), col : 0..(COLS - 1), dir : Directions,
            len : lens, piece : Players] :
        /\ s.row + (s.len - 1) * s.dir[1] < R
        /\ s.col + (s.len - 1) * s.dir[2] >= 0
        /\ s.col + (s.len - 1) * s.dir[2] < COLS
        /\ (s.len = 0 => s.row = 0 /\ s.col = 0 /\ s.piece = YELLOW)
        /\ (s.len <= 1 => s.dir = <<0, 1>>)}

RunCells(s) ==
    {(s.row + k * s.dir[1]) * 7 + s.col + k * s.dir[2] + 1 :
        k \in 0..(s.len - 1)}

Paint(b, s) ==
    LET cells == RunCells(s)
    IN  [i \in 1..Len(b) |-> IF i \in cells THEN s.piece ELSE b[i]]

\* A board whose column c holds the pieces of `stack` from the bottom up and
\* whose other columns all hold the pieces of `rest`.
Stacks(R) == UNION {[1..n -> Players] : n \in 0..R}

Stacked(R, c, stack, rest) ==
    [i \in 1..(COLS * R) |->
        LET row == (i - 1) \div COLS
            s == IF (i - 1) % COLS = c THEN stack ELSE rest
        IN  IF row < Len(s) THEN s[row + 1] ELSE EMPTY]

(***************************************************************************)
(* Specifications                                                          *)
(***************************************************************************)

NoCall ==
    /\ board = 1
    /\ pc = "ready"
    /\ who_played = 0
    /\ winner = 0
    /\ calls = 0
    /\ lastIn = 0
    /\ lastOut = 0
    /\ snapshot = <<>>
    /\ turn = 0
    /\ col = 0
    /\ pop = FALSE

\* Hole-free boards, for the callers of apply_move.
Init ==
    /\ \E R \in 1..MaxMoveRows : \E c \in 0..(COLS - 1) :
           \E stack \in Stacks(R), rest \in Stacks(1) :
               heap = <<Stacked(R, c, stack, rest)>>
    /\ NoCall

\* Low boards holding up to two runs of any length, the second painted
\* over the first, for the callers of check_victory.
InitShort ==
    /\ \E R \in 1..MaxShortRows :
           \E s1 \in Runs(R, 0..COLS), s2 \in Runs(R, 0..COLS) :
               heap = <<Paint(Paint(EmptyBoard(R), s1), s2)>>
    /\ NoCall

\* Boards of every height holding a run of three or more cells and possibly
\* a second one, of the other colour, painted over it.
InitVictory ==
    /\ \E R \in 1..MaxRows :
           \E s1 \in Runs(R, {0} \cup 3..COLS), s2 \in Runs(R, {0} \cup 3..COLS) :
               /\ s2.len = 0 \/ s2.piece # s1.piece
               /\ heap = <<Paint(Paint(EmptyBoard(R), s1), s2)>>
    /\ NoCall

ApplyMove(t, c, p) ==
    /\ pc \in {"ready", "applied"}
    /\ calls < MaxCalls
    /\ check_move(heap[board], t, c, p)
    /\ LET r == apply_move(heap, board, t, c, p)
       IN  /\ heap' = r.heap
           /\ board' = r.ref
           /\ lastOut' = r.ref
    /\ lastIn' = board
    /\ snapshot' = heap[board]
    /\ turn' = t
    /\ col' = c
    /\ pop' = p
    /\ calls' = calls + 1
    /\ pc' = "applied"
    /\ UNCHANGED <<who_played, winner>>

Drop == \E t \in Players, c \in 0..(COLS - 1) : ApplyMove(t, c, FALSE)

Pop == \E t \in Players, c \in 0..(COLS - 1) : ApplyMove(t, c, TRUE)

\* The caller stores v into cell i of the list apply_move returned.
CallerWrite(i, v) ==
    /\ pc = "applied"
    /\ v # heap[lastOut][i]
    /\ heap' = [heap EXCEPT ![lastOut][i] = v]
    /\ pc' = "written"
    /\ UNCHANGED <<board, who_played, winner, calls, lastIn, lastOut,
                   snapshot, turn, col, pop>>

Write ==
    /\ pc = "applied"
    /\ \E i \in 1..Len(heap[lastOut]) : \E v \in {EMPTY, YELLOW, RED} :
           CallerWrite(i, v)

CheckVictory(who) ==
    /\ pc = "ready"
    /\ winner' = check_victory(heap[board], who)
    /\ who_played' = who
    /\ pc' = "checked"
    /\ UNCHANGED <<heap, board, calls, lastIn, lastOut, snapshot, turn,
                   col, pop>>

Check == \E who \in Players : CheckVictory(who)

Next == Drop \/ Pop

NextCaller == Drop \/ Pop \/ Write

NextVictory == Check

Spec == Init /\ [][Next]_vars

SpecCaller == Init /\ [][NextCaller]_vars

SpecShort == InitShort /\ [][NextVictory]_vars

SpecVictory == InitVictory /\ [][NextVictory]_vars

(***************************************************************************)
(* What the claims speak of                                                *)
(***************************************************************************)

ValidBoard(b) ==
    /\ Len(b) > 0
    /\ Len(b) % COLS = 0
    /\ \A i \in 1..Len(b) : b[i] \in {EMPTY, YELLOW, RED}

InBoard(b, row, c) ==
    /\ 0 <= row /\ row < num_rows(b)
    /\ 0 <= c /\ c < COLS

\* n consecutive cells of colour p from (row, c) in direction dir.
RunAt(b, row, c, dir, n, p) ==
    \A k \in 0..(n - 1) :
        /\ InBoard(b, row + k * dir[1], c + k * dir[2])
        /\ Cell(b, row + k * dir[1], c + k * dir[2]) = p

HasRun(b, dirs, n, p) ==
    \E row \in 0..(num_rows(b) - 1), c \in 0..(COLS - 1), dir \in dirs :
        RunAt(b, row, c, dir, n, p)

HasFour(b, p) == HasRun(b, Directions, 4, p)

Horizontal == {<<0, 1>>}
Vertical == {<<1, 0>>}
Diagonal == {<<1, 1>>, <<1, -1>>}

Opponent(p) == 3 - p

\* Number of occupied cells of column c.
ColumnCount(b, c) ==
    Cardinality({row \in 0..(num_rows(b) - 1) : Cell(b, row, c) # EMPTY})

\* No column has an EMPTY cell below an occupied one.
HoleFree(b) ==
    \A c \in 0..(COLS - 1) : \A row \in 1..(num_rows(b) - 1) :
        Cell(b, row, c) # EMPTY => Cell(b, row - 1, c) # EMPTY

\* The only pieces of b are column c, filled with colour p.
OnlyColumn(b, c, p) ==
    \A row \in 0..(num_rows(b) - 1), k \in 0..(COLS - 1) :
        Cell(b, row, k) = (IF k = c THEN p ELSE EMPTY)

\* Every four diagonally consecutive cells of b lie on a scanned diagonal.
DiagonalsCovered(b) ==
    \A row \in 0..(num_rows(b) - 1), c \in 0..(COLS - 1) :
        /\ InBoard(b, row + 3, c - 3) =>
               \E rc \in UpLeftStarts(b) :
                   {<<row + k, c - k>> : k \in 0..3}
                       \subseteq UpLeftLine(b, rc[1], rc[2])
        /\ InBoard(b, row + 3, c + 3) =>
               \E rc \in UpRightStarts(b) :
                   {<<row + k, c + k>> : k \in 0..3}
                       \subseteq UpRightLine(b, rc[1], rc[2])

Checked == pc = "checked"

(***************************************************************************)
(* C1: a row holding four consecutive cells of one colour, the other       *)
(* colour having no four-in-a-row anywhere, makes check_victory return     *)
(* that colour, whoever played; [1,1,1,1,0,2,2] with RED to play gives 1.  *)
(***************************************************************************)
C1_HorizontalFourWins ==
    Checked =>
        \A p \in Players :
            HasRun(heap[board], Horizontal, 4, p)
                /\ ~HasFour(heap[board], Opponent(p))
            => winner = p

(***************************************************************************)
(* C2: when both colours have a four-in-a-row, check_victory returns the   *)
(* opponent of who_played, 3 - who_played.                                 *)
(***************************************************************************)
C2_BothWinMoverLoses ==
    Checked /\ HasFour(heap[board], YELLOW) /\ HasFour(heap[board], RED)
        => winner = 3 - who_played

(***************************************************************************)
(* C3: a drop into a column that is not full returns a board with one more *)
(* piece in that column, turn's colour in its lowest empty cell; a pop of  *)
(* a column that is not empty returns a board with one piece fewer, the    *)
(* row-0 piece gone and every piece above it one row lower.                *)
(***************************************************************************)
C3_MoveChangesColumn ==
    pc = "applied" =>
        LET in == snapshot
            out == heap[lastOut]
            n == ColumnCount(in, col)
            top == num_rows(in) - 1
        IN  /\ (~pop /\ n < num_rows(in)) =>
                   /\ ColumnCount(out, col) = n + 1
                   /\ \A row \in 0..top :
                          (Cell(in, row, col) = EMPTY
                              /\ \A r \in 0..(row - 1) :
                                     Cell(in, r, col) # EMPTY)
                          => Cell(out, row, col) = turn
            /\ (pop /\ n > 0) =>
                   /\ ColumnCount(out, col) = n - 1
                   /\ \A row \in 0..(top - 1) :
                          Cell(out, row, col) = Cell(in, row + 1, col)
                   /\ Cell(out, top, col) = EMPTY

(***************************************************************************)
(* C4: on a board where neither colour has four or more consecutive cells  *)
(* in a row, column or diagonal, check_victory returns 0.                  *)
(***************************************************************************)
C4_NoFourNoWinner ==
    Checked /\ ~HasFour(heap[board], YELLOW) /\ ~HasFour(heap[board], RED)
        => winner = 0

(***************************************************************************)
(* C5: a run of 5, 6 or 7 consecutive cells of one colour, the other       *)
(* colour having no four-in-a-row, makes check_victory return the colour   *)
(* of the run.                                                             *)
(***************************************************************************)
C5_LongRunWins ==
    Checked =>
        \A p \in Players :
            (\E n \in 5..COLS : HasRun(heap[board], Directions, n, p))
                /\ ~HasFour(heap[board], Opponent(p))
            => winner = p

(***************************************************************************)
(* C6: apply_move leaves its input list as it was, returns a list object   *)
(* that did not exist before the call (so that a later store into it does  *)
(* not reach the input), and the cells it returns outside column col are   *)
(* those of the input.                                                     *)
(***************************************************************************)
C6_FreshSnapshot ==
    calls > 0 =>
        /\ heap[lastIn] = snapshot
        /\ lastOut # lastIn
        /\ lastOut = Len(heap)
        /\ Len(heap) = calls + 1
        /\ pc = "applied" =>
               /\ Len(heap[lastOut]) = Len(snapshot)
               /\ \A i \in 1..Len(snapshot) :
                      (i - 1) % COLS # col => heap[lastOut][i] = snapshot[i]

\* The caller has stored into the returned list, which now differs from the
\* input of the call.
C6_Witness ==
    /\ pc = "written"
    /\ calls > 0
    /\ heap[lastOut] # snapshot
    /\ heap[lastIn] = snapshot

(***************************************************************************)
(* C7: from a valid hole-free board, after any sequence of apply_move      *)
(* calls the board has a length that is a positive multiple of 7, cells in *)
(* {0,1,2} and no EMPTY cell below an occupied one.                        *)
(***************************************************************************)
C7_BoardStaysWellFormed ==
    /\ ValidBoard(heap[board])
    /\ HoleFree(heap[board])

\* Two calls have been made, the last a pop of a column holding two pieces.
C7_Witness ==
    /\ calls >= 2
    /\ pc = "applied"
    /\ pop
    /\ ColumnCount(snapshot, col) >= 2
    /\ board = lastOut

(***************************************************************************)
(* C8: on a board of fewer than 4 rows check_victory returns what the      *)
(* horizontal scan alone yields; a board whose only pieces are one column  *)
(* filled with one colour gives 0.                                         *)
(***************************************************************************)
C8_ShortBoardsHorizontalOnly ==
    Checked /\ num_rows(heap[board]) < 4 =>
        LET rows == HorizontalScan(heap[board])
        IN  /\ winner =
                   Resolve([yellow_wins |-> \E s \in rows : s.yellow_wins,
                            red_wins |-> \E s \in rows : s.red_wins],
                           who_played)
            /\ \A c \in 0..(COLS - 1), p \in Players :
                   OnlyColumn(heap[board], c, p) => winner = 0

\* check_victory has been called on a 3-row board whose only pieces are a
\* column of three cells of one colour.
C8_Witness ==
    /\ Checked
    /\ num_rows(heap[board]) = 3
    /\ \E c \in 0..(COLS - 1), p \in Players : OnlyColumn(heap[board], c, p)
    /\ winner = 0

(***************************************************************************)
(* C9: on a board of 4 rows or more, a column holding four vertically      *)
(* consecutive cells of one colour, the other colour having no             *)
(* four-in-a-row, makes check_victory return that colour.                  *)
(***************************************************************************)
C9_VerticalFourWins ==
    Checked /\ num_rows(heap[board]) >= 4 =>
        \A p \in Players :
            HasRun(heap[board], Vertical, 4, p)
                /\ ~HasFour(heap[board], Opponent(p))
            => winner = p

(***************************************************************************)
(* C10: on a board of 4 rows or more, four diagonally consecutive cells of *)
(* one colour, in either direction, the other colour having no             *)
(* four-in-a-row, make check_victory return that colour.                   *)
(***************************************************************************)
C10_DiagonalFourWins ==
    Checked /\ num_rows(heap[board]) >= 4 =>
        /\ DiagonalsCovered(heap[board])
        /\ \A p \in Players :
               HasRun(heap[board], Diagonal, 4, p)
                   /\ ~HasFour(heap[board], Opponent(p))
               => winner = p

====
